---- MODULE Spec2Model ----
(***************************************************************************)
(* atinline: runtime inlining of Python functions by bytecode rewriting.   *)
(*                                                                         *)
(* The model holds the interpreter state the hack manipulates: the code    *)
(* object of every function, the module namespaces, the frame stack, the   *)
(* memo table _ALREADY_INLINED and the id generator behind new_name.  Code *)
(* objects are sequences of instructions with byte offsets as CPython 2.7  *)
(* lays them out; byteplay's Code form (labels and SetLineno entries in    *)
(* the list) is produced and consumed by FromCode and ToCode.              *)
(***************************************************************************)
EXTENDS Integers, Sequences, FiniteSets, TLC

\* ------------------------------------------------------------------ bounds
\* Largest argument the driver passes to the caller (xrange(n) or n itself).
MaxInput == 2
\* Number of invocations of the caller in one behaviour.
MaxInvocations == 3

\* ------------------------------------------------------------------ values
Val(t, n, m, s) == [t |-> t, n |-> n, m |-> m, s |-> s]
PyInt(n) == Val("int", n, 0, "")
PyStr(s) == Val("str", 0, 0, s)
PyNone == Val("none", 0, 0, "")
Unbound == Val("unbound", 0, 0, "")
Fn(s) == Val("function", 0, 0, s)
Method(s) == Val("instancemethod", 0, 0, s)
Module(s) == Val("module", 0, 0, s)
Instance(s) == Val("instance", 0, 0, s)
Dict(s) == Val("dict", 0, 0, s)
Class(s) == Val("class", 0, 0, s)
Exc(s) == Val("exception", 0, 0, s)
XRange(n) == Val("xrange", n, 0, "")
Iter(pos, lim) == Val("iterator", pos, lim, "")
Lbl(origin, n) == Val("label", n, 0, origin)

\* ------------------------------------------------------------ instructions
\* An entry of a code list: (op, arg).  ln is the line that starts at the
\* instruction in a code object (co_lnotab), src the inlining that put the
\* instruction there (0: the function's own code).
Ins(op, arg) == [op |-> op, arg |-> arg, ln |-> 0, src |-> 0]
Op0(op) == Ins(op, PyNone)
OpN(op, name) == Ins(op, PyStr(name))
OpI(op, n) == Ins(op, PyInt(n))
Label(l) == Ins("Label", l)
SetLineno(n) == Ins("SetLineno", PyInt(n))

\* dis.HAVE_ARGUMENT: the opcodes that carry a two-byte operand.
HaveArgument ==
    {"LOAD_CONST", "LOAD_FAST", "STORE_FAST", "DELETE_FAST", "LOAD_GLOBAL",
     "STORE_GLOBAL", "DELETE_GLOBAL", "LOAD_NAME", "STORE_NAME",
     "DELETE_NAME", "LOAD_DEREF", "STORE_DEREF", "LOAD_ATTR",
     "CALL_FUNCTION", "JUMP_ABSOLUTE", "JUMP_FORWARD", "POP_JUMP_IF_FALSE",
     "SETUP_LOOP", "FOR_ITER", "RAISE_VARARGS"}
\* dis.hasjrel + dis.hasjabs: the opcodes whose operand is a jump target.
JumpOps ==
    {"JUMP_ABSOLUTE", "JUMP_FORWARD", "POP_JUMP_IF_FALSE", "SETUP_LOOP",
     "FOR_ITER"}
FastOps == {"LOAD_FAST", "STORE_FAST", "DELETE_FAST"}

OpSize(op) == IF op \in HaveArgument THEN 3 ELSE 1

\* ------------------------------------------------------- python list access
Max(a, b) == IF a > b THEN a ELSE b
Min(a, b) == IF a < b THEN a ELSE b
\* list[i] for a Python index i (negative indices count from the end).
InRange(c, i) == -Len(c) <= i /\ i < Len(c)
At(c, i) == IF i >= 0 THEN c[i + 1] ELSE c[Len(c) + i + 1]
\* A slice bound as Python normalises it.
Norm(i, n) == IF i < 0 THEN Max(i + n, 0) ELSE Min(i, n)
\* list[lo:hi] = new
SliceAssign(c, lo, hi, new) ==
    LET a == Norm(lo, Len(c))
        b == Max(Norm(hi, Len(c)), a)
    IN SubSeq(c, 1, a) \o new \o SubSeq(c, b + 1, Len(c))
\* del list[lo:hi]
SliceDel(c, lo, hi) == SliceAssign(c, lo, hi, <<>>)
Insert0(c, x) == <<x>> \o c
NotLineno(e) == e.op # "SetLineno"
\* [op for op in code if op[0] != SetLineno]
StripLineno(c) == SelectSeq(c, NotLineno)
IndexOf(s, x) == IF \E i \in 1..Len(s) : s[i] = x
                 THEN CHOOSE i \in 1..Len(s) : s[i] = x /\ \A j \in 1..(i - 1) : s[j] # x
                 ELSE 0
Range(s) == {s[i] : i \in 1..Len(s)}

\* --------------------------------------------------------- code objects
\* A code object: co_code as a sequence of instructions (jump operands are
\* absolute byte offsets), co_varnames and co_argcount.
RECURSIVE Offset(_, _)
\* Byte offset of the k-th instruction (1-based) of co_code.
Offset(co_code, k) ==
    IF k <= 1 THEN 0 ELSE Offset(co_code, k - 1) + OpSize(co_code[k - 1].op)

\* dis.findlabels: the byte offsets that are jump targets.
findlabels(co_code) ==
    {co_code[k].arg.n : k \in {j \in 1..Len(co_code) : co_code[j].op \in JumpOps}}

RECURSIVE FromCodeList(_, _, _)
FromCodeList(co_code, k, origin) ==
    IF k > Len(co_code) THEN <<>>
    ELSE LET o == Offset(co_code, k)
             e == co_code[k]
             lab == IF o \in findlabels(co_code) THEN <<Label(Lbl(origin, o))>> ELSE <<>>
             lno == IF e.ln # 0 THEN <<SetLineno(e.ln)>> ELSE <<>>
             arg == IF e.op \in JumpOps THEN Lbl(origin, e.arg.n) ELSE e.arg
         IN lab \o lno \o <<[e EXCEPT !.arg = arg, !.ln = 0]>>
                \o FromCodeList(co_code, k + 1, origin)

\* byteplay Code.from_code: the code list with Label and SetLineno entries,
\* and the argument names.  origin tells the labels of one conversion from
\* those of another (byteplay makes fresh Label objects each time).
FromCode(co, origin) ==
    [code |-> FromCodeList(co.co_code, 1, origin),
     args |-> SubSeq(co.co_varnames, 1, co.co_argcount)]

\* byteplay getse: the (pop, push) stack effect of an entry; <<-1, -1>>
\* stands for the ValueError it raises for labels and flow-control opcodes.
GetseError == <<-1, -1>>
getse(e) ==
    CASE e.op \in {"LOAD_CONST", "LOAD_FAST", "LOAD_GLOBAL", "LOAD_NAME",
                   "LOAD_DEREF"} -> <<0, 1>>
      [] e.op \in {"STORE_FAST", "STORE_GLOBAL", "STORE_NAME", "STORE_DEREF",
                   "POP_TOP"} -> <<1, 0>>
      [] e.op \in {"DELETE_FAST", "DELETE_GLOBAL", "DELETE_NAME"} -> <<0, 0>>
      [] e.op \in {"LOAD_ATTR", "GET_ITER"} -> <<1, 1>>
      [] e.op \in {"BINARY_ADD", "BINARY_MULTIPLY", "BINARY_SUBSCR",
                   "INPLACE_ADD"} -> <<2, 1>>
      [] e.op = "CALL_FUNCTION" ->
            <<1 + (e.arg.n % 256) + 2 * ((e.arg.n \div 256) % 256), 1>>
      [] e.op = "RAISE_VARARGS" -> <<e.arg.n, 0>>
      [] OTHER -> GetseError

\* Position (1-based) of a label in a code list; the last one wins, as in
\* the dict byteplay builds.  0 when the label is not in the list.
LabelPos(code, l) ==
    LET at == {i \in 1..Len(code) : code[i].op = "Label" /\ code[i].arg = l}
    IN IF at = {} THEN 0 ELSE CHOOSE i \in at : \A j \in at : j <= i

Last(s) == s[Len(s)]
Front(s) == SubSeq(s, 1, Len(s) - 1)
PushN(stk, n) == Front(stk) \o <<Last(stk) + n>>

RECURSIVE StackOK(_, _, _)
\* byteplay Code._compute_stacksize, as far as it can fail: it follows the
\* flow from the first entry with the stack state (one count per block) and
\* raises ValueError when an entry pops below zero or a label is reached
\* with two different states.  work: positions to explore, seen: the state
\* recorded at each label.
StackOK(code, work, seen) ==
    IF work = <<>> THEN TRUE
    ELSE LET pos == work[1][1]
             cur == work[1][2]
             rest == Tail(work)
         IN IF pos > Len(code) \/ pos < 1 THEN FALSE
            ELSE LET e == code[pos]
                     se == getse(e)
                     n == se[2] - se[1]
                 IN CASE e.op = "Label" ->
                           IF seen[pos] = <<>> THEN
                               StackOK(code, <<<<pos + 1, cur>>>> \o rest,
                                       [seen EXCEPT ![pos] = cur])
                           ELSE IF seen[pos] # cur THEN FALSE
                           ELSE StackOK(code, rest, seen)
                      [] e.op = "SetLineno" ->
                           StackOK(code, <<<<pos + 1, cur>>>> \o rest, seen)
                      [] e.op \in {"JUMP_ABSOLUTE", "JUMP_FORWARD"} ->
                           StackOK(code, <<<<LabelPos(code, e.arg), cur>>>> \o rest, seen)
                      [] e.op = "POP_JUMP_IF_FALSE" ->
                           IF Last(cur) - 1 < 0 THEN FALSE
                           ELSE StackOK(code, <<<<pos + 1, PushN(cur, -1)>>,
                                                <<LabelPos(code, e.arg), PushN(cur, -1)>>>>
                                              \o rest, seen)
                      [] e.op = "FOR_ITER" ->
                           IF Last(cur) - 1 < 0 THEN FALSE
                           ELSE StackOK(code, <<<<pos + 1, PushN(cur, 1)>>,
                                                <<LabelPos(code, e.arg), PushN(cur, -1)>>>>
                                              \o rest, seen)
                      [] e.op = "SETUP_LOOP" ->
                           StackOK(code, <<<<pos + 1, cur \o <<0>>>>,
                                           <<LabelPos(code, e.arg), cur>>>> \o rest, seen)
                      [] e.op = "POP_BLOCK" ->
                           IF Len(cur) < 2 THEN FALSE
                           ELSE StackOK(code, <<<<pos + 1, Front(cur)>>>> \o rest, seen)
                      [] e.op \in {"RETURN_VALUE", "RAISE_VARARGS"} ->
                           StackOK(code, rest, seen)
                      [] OTHER ->
                           IF se = GetseError \/ Last(cur) + n < 0 THEN FALSE
                           ELSE StackOK(code, <<<<pos + 1, PushN(cur, n)>>>> \o rest, seen)

RECURSIVE AsmOffset(_, _)
\* Byte offset at which the entry at position k of a code list is assembled.
AsmOffset(code, k) ==
    IF k <= 1 THEN 0
    ELSE AsmOffset(code, k - 1) +
         (IF code[k - 1].op \in {"Label", "SetLineno"} THEN 0 ELSE OpSize(code[k - 1].op))

RECURSIVE Assemble(_, _, _)
Assemble(code, k, ln) ==
    IF k > Len(code) THEN <<>>
    ELSE LET e == code[k]
         IN CASE e.op = "Label" -> Assemble(code, k + 1, ln)
              [] e.op = "SetLineno" -> Assemble(code, k + 1, e.arg.n)
              [] OTHER ->
                   LET arg == IF e.op \in JumpOps
                              THEN PyInt(AsmOffset(code, LabelPos(code, e.arg)))
                              ELSE e.arg
                   IN <<[e EXCEPT !.arg = arg, !.ln = ln]>> \o Assemble(code, k + 1, 0)

RECURSIVE VarNames(_, _, _)
\* co_varnames: the arguments, then the other fast locals in order of
\* first appearance.
VarNames(code, k, acc) ==
    IF k > Len(code) THEN acc
    ELSE VarNames(code, k + 1,
                  IF code[k].op \in FastOps /\ code[k].arg.s \notin Range(acc)
                  THEN Append(acc, code[k].arg.s) ELSE acc)

ToCodeError == [error |-> "ValueError"]
\* byteplay Code.to_code: assemble the list into a code object, or raise
\* ValueError when the stack check fails.
ToCode(c) ==
    IF c.code = <<>> \/ ~StackOK(c.code, <<<<1, <<0>>>>>>, [i \in 1..Len(c.code) |-> <<>>])
    THEN ToCodeError
    ELSE [co_code |-> Assemble(c.code, 1, 0),
          co_varnames |-> VarNames(c.code, 1, c.args),
          co_argcount |-> Len(c.args)]

\* Code objects compare by value without their line table or stack size.
Bare(co_code) == [k \in 1..Len(co_code) |-> [co_code[k] EXCEPT !.ln = 0, !.src = 0]]
CodeEq(a, b) ==
    /\ Bare(a.co_code) = Bare(b.co_code)
    /\ a.co_varnames = b.co_varnames
    /\ a.co_argcount = b.co_argcount


\* ------------------------------------------------------------- the program
\* The functions of the program.  Callees live in module atinline.tests and
\* are decorated with @inline; callers live in another module ("app") that
\* imported the callees' names.
Compile(args, code) == ToCode([code |-> code, args |-> args])

\* def calculate(a): return 2*a + 1
calculate_code ==
    Compile(<<"a">>,
      <<SetLineno(14), OpI("LOAD_CONST", 2), OpN("LOAD_FAST", "a"),
        Op0("BINARY_MULTIPLY"), OpI("LOAD_CONST", 1), Op0("BINARY_ADD"),
        Op0("RETURN_VALUE")>>)

\* def pick(a):
\*     if a: return 1
\*     return 2
pick_code ==
    Compile(<<"a">>,
      <<SetLineno(2), OpN("LOAD_FAST", "a"), Ins("POP_JUMP_IF_FALSE", Lbl("c", 1)),
        SetLineno(3), OpI("LOAD_CONST", 1), Op0("RETURN_VALUE"),
        Label(Lbl("c", 1)),
        SetLineno(4), OpI("LOAD_CONST", 2), Op0("RETURN_VALUE")>>)

\* def withdef(a, b=5):
\*     t = a + b
\*     return t
withdef_code ==
    Compile(<<"a", "b">>,
      <<SetLineno(2), OpN("LOAD_FAST", "a"), OpN("LOAD_FAST", "b"),
        Op0("BINARY_ADD"), OpN("STORE_FAST", "t"),
        SetLineno(3), OpN("LOAD_FAST", "t"), Op0("RETURN_VALUE")>>)

\* def add_to_running_total(x):
\*     global running_total
\*     running_total += x
\*     return running_total
add_to_running_total_code ==
    Compile(<<"x">>,
      <<SetLineno(3), OpN("LOAD_GLOBAL", "running_total"), OpN("LOAD_FAST", "x"),
        Op0("INPLACE_ADD"), OpN("STORE_GLOBAL", "running_total"),
        SetLineno(4), OpN("LOAD_GLOBAL", "running_total"), Op0("RETURN_VALUE")>>)

\* def zero(): return 7
zero_code ==
    Compile(<<>>, <<SetLineno(1), OpI("LOAD_CONST", 7), Op0("RETURN_VALUE")>>)

\* def byname(a): return k + a          (k is a closure variable)
byname_code ==
    Compile(<<"a">>,
      <<SetLineno(1), OpN("LOAD_DEREF", "k"), OpN("LOAD_FAST", "a"),
        Op0("BINARY_ADD"), Op0("RETURN_VALUE")>>)

\* class C: def meth(self, a): return a + 1
meth_code ==
    Compile(<<"self", "a">>,
      <<SetLineno(1), OpN("LOAD_FAST", "a"), OpI("LOAD_CONST", 1),
        Op0("BINARY_ADD"), Op0("RETURN_VALUE")>>)

\* def calculate(a): raise ValueError("failed to inline")
boom_code ==
    Compile(<<"a">>,
      <<SetLineno(22), OpN("LOAD_GLOBAL", "ValueError"),
        Ins("LOAD_CONST", PyStr("failed to inline")), OpI("CALL_FUNCTION", 1),
        OpI("RAISE_VARARGS", 1)>>)

\* def aggregate(items):            (nested in test_basic_inlining, so
\*     total = 0                     calculate is a free variable)
\*     for item in items:
\*         total += calculate(item)
\*     return total
aggregate_code ==
    Compile(<<"items">>,
      <<SetLineno(16), OpI("LOAD_CONST", 0), OpN("STORE_FAST", "total"),
        SetLineno(17), Ins("SETUP_LOOP", Lbl("c", 3)), OpN("LOAD_FAST", "items"),
        Op0("GET_ITER"),
        Label(Lbl("c", 1)), Ins("FOR_ITER", Lbl("c", 2)), OpN("STORE_FAST", "item"),
        SetLineno(18), OpN("LOAD_FAST", "total"), OpN("LOAD_DEREF", "calculate"),
        OpN("LOAD_FAST", "item"), OpI("CALL_FUNCTION", 1), Op0("INPLACE_ADD"),
        OpN("STORE_FAST", "total"), Ins("JUMP_ABSOLUTE", Lbl("c", 1)),
        Label(Lbl("c", 2)), Op0("POP_BLOCK"),
        Label(Lbl("c", 3)),
        SetLineno(19), OpN("LOAD_FAST", "total"), Op0("RETURN_VALUE")>>)

\* def inline_aggregate(items):
\*     total = 0
\*     for item in items:
\*         total += calculate(item)
\*     return total
inline_aggregate_code ==
    Compile(<<"items">>,
      <<SetLineno(55), OpI("LOAD_CONST", 0), OpN("STORE_FAST", "total"),
        SetLineno(56), Ins("SETUP_LOOP", Lbl("c", 3)), OpN("LOAD_FAST", "items"),
        Op0("GET_ITER"),
        Label(Lbl("c", 1)), Ins("FOR_ITER", Lbl("c", 2)), OpN("STORE_FAST", "item"),
        SetLineno(57), OpN("LOAD_FAST", "total"), OpN("LOAD_GLOBAL", "calculate"),
        OpN("LOAD_FAST", "item"), OpI("CALL_FUNCTION", 1), Op0("INPLACE_ADD"),
        OpN("STORE_FAST", "total"), Ins("JUMP_ABSOLUTE", Lbl("c", 1)),
        Label(Lbl("c", 2)), Op0("POP_BLOCK"),
        Label(Lbl("c", 3)),
        SetLineno(58), OpN("LOAD_FAST", "total"), Op0("RETURN_VALUE")>>)

\* def multi(items):
\*     total = 0
\*     for item in items:
\*         if item:
\*             total += pick(item)
\*         total += calculate(item)
\*     return total
multi_code ==
    Compile(<<"items">>,
      <<SetLineno(2), OpI("LOAD_CONST", 0), OpN("STORE_FAST", "total"),
        SetLineno(3), Ins("SETUP_LOOP", Lbl("c", 4)), OpN("LOAD_FAST", "items"),
        Op0("GET_ITER"),
        Label(Lbl("c", 1)), Ins("FOR_ITER", Lbl("c", 3)), OpN("STORE_FAST", "item"),
        SetLineno(4), OpN("LOAD_FAST", "item"), Ins("POP_JUMP_IF_FALSE", Lbl("c", 2)),
        SetLineno(5), OpN("LOAD_FAST", "total"), OpN("LOAD_GLOBAL", "pick"),
        OpN("LOAD_FAST", "item"), OpI("CALL_FUNCTION", 1), Op0("INPLACE_ADD"),
        OpN("STORE_FAST", "total"), Ins("JUMP_FORWARD", Lbl("c", 2)),
        Label(Lbl("c", 2)),
        SetLineno(6), OpN("LOAD_FAST", "total"), OpN("LOAD_GLOBAL", "calculate"),
        OpN("LOAD_FAST", "item"), OpI("CALL_FUNCTION", 1), Op0("INPLACE_ADD"),
        OpN("STORE_FAST", "total"), Ins("JUMP_ABSOLUTE", Lbl("c", 1)),
        Label(Lbl("c", 3)), Op0("POP_BLOCK"),
        Label(Lbl("c", 4)),
        SetLineno(7), OpN("LOAD_FAST", "total"), Op0("RETURN_VALUE")>>)

\* def seq2(x): return calculate(x) + pick(x)
seq2_code ==
    Compile(<<"x">>,
      <<SetLineno(1), OpN("LOAD_GLOBAL", "calculate"), OpN("LOAD_FAST", "x"),
        OpI("CALL_FUNCTION", 1), OpN("LOAD_GLOBAL", "pick"), OpN("LOAD_FAST", "x"),
        OpI("CALL_FUNCTION", 1), Op0("BINARY_ADD"), Op0("RETURN_VALUE")>>)

\* def twice(x): return calculate(x) + calculate(x + 1)
twice_code ==
    Compile(<<"x">>,
      <<SetLineno(1), OpN("LOAD_GLOBAL", "calculate"), OpN("LOAD_FAST", "x"),
        OpI("CALL_FUNCTION", 1), OpN("LOAD_GLOBAL", "calculate"),
        OpN("LOAD_FAST", "x"), OpI("LOAD_CONST", 1), Op0("BINARY_ADD"),
        OpI("CALL_FUNCTION", 1), Op0("BINARY_ADD"), Op0("RETURN_VALUE")>>)

\* def call_inlined_add_to_total(x):
\*     return atinline.tests.add_to_running_total(x)
call_inlined_add_to_total_code ==
    Compile(<<"x">>,
      <<SetLineno(29), OpN("LOAD_GLOBAL", "atinline"), OpN("LOAD_ATTR", "tests"),
        OpN("LOAD_ATTR", "add_to_running_total"), OpN("LOAD_FAST", "x"),
        OpI("CALL_FUNCTION", 1), Op0("RETURN_VALUE")>>)

\* def usedef(x): return withdef(x)
usedef_code ==
    Compile(<<"x">>,
      <<SetLineno(1), OpN("LOAD_GLOBAL", "withdef"), OpN("LOAD_FAST", "x"),
        OpI("CALL_FUNCTION", 1), Op0("RETURN_VALUE")>>)

\* def two(x): return withdef(x, x)
two_code ==
    Compile(<<"x">>,
      <<SetLineno(1), OpN("LOAD_GLOBAL", "withdef"), OpN("LOAD_FAST", "x"),
        OpN("LOAD_FAST", "x"), OpI("CALL_FUNCTION", 2), Op0("RETURN_VALUE")>>)

\* def noargs(x): return zero()
noargs_code ==
    Compile(<<"x">>,
      <<SetLineno(1), OpN("LOAD_GLOBAL", "zero"), OpI("CALL_FUNCTION", 0),
        Op0("RETURN_VALUE")>>)

\* def kw(x): return withdef(x, b=1)
kw_code ==
    Compile(<<"x">>,
      <<SetLineno(1), OpN("LOAD_GLOBAL", "withdef"), OpN("LOAD_FAST", "x"),
        Ins("LOAD_CONST", PyStr("b")), OpI("LOAD_CONST", 1),
        OpI("CALL_FUNCTION", 257), Op0("RETURN_VALUE")>>)

\* def clos(x): return byname(x)
clos_code ==
    Compile(<<"x">>,
      <<SetLineno(1), OpN("LOAD_GLOBAL", "byname"), OpN("LOAD_FAST", "x"),
        OpI("CALL_FUNCTION", 1), Op0("RETURN_VALUE")>>)

\* def table(x): return FUNCS['f'](x)
table_code ==
    Compile(<<"x">>,
      <<SetLineno(1), OpN("LOAD_GLOBAL", "FUNCS"), Ins("LOAD_CONST", PyStr("f")),
        Op0("BINARY_SUBSCR"), OpN("LOAD_FAST", "x"), OpI("CALL_FUNCTION", 1),
        Op0("RETURN_VALUE")>>)

\* def viameth(x): return obj.meth(x)
viameth_code ==
    Compile(<<"x">>,
      <<SetLineno(1), OpN("LOAD_GLOBAL", "obj"), OpN("LOAD_ATTR", "meth"),
        OpN("LOAD_FAST", "x"), OpI("CALL_FUNCTION", 1), Op0("RETURN_VALUE")>>)

\* def viabuiltin(x): return bcalc(x)     (bcalc is bound in __builtin__ only)
viabuiltin_code ==
    Compile(<<"x">>,
      <<SetLineno(1), OpN("LOAD_GLOBAL", "bcalc"), OpN("LOAD_FAST", "x"),
        OpI("CALL_FUNCTION", 1), Op0("RETURN_VALUE")>>)

\* class C: def run(self, x): return withdef(x)
run_code ==
    Compile(<<"self", "x">>,
      <<SetLineno(1), OpN("LOAD_GLOBAL", "withdef"), OpN("LOAD_FAST", "x"),
        OpI("CALL_FUNCTION", 1), Op0("RETURN_VALUE")>>)

\* The frame that invokes the caller, one per way of loading it:
\*   plain    def main(v): return <caller>(v)
\*   local    def main(c, v): return c(v)
\*   subscr   def main(v): return FUNCS['c'](v)
\*   builtin  def main(v): return busedef(v)   (bound in __builtin__ only)
\*   method   def main(v): return obj.run(v)
DriverLoad(kind, caller) ==
    CASE kind = "plain" -> <<OpN("LOAD_GLOBAL", caller)>>
      [] kind = "local" -> <<OpN("LOAD_FAST", "c")>>
      [] kind = "subscr" -> <<OpN("LOAD_GLOBAL", "FUNCS"), Ins("LOAD_CONST", PyStr("c")),
                              Op0("BINARY_SUBSCR")>>
      [] kind = "builtin" -> <<OpN("LOAD_GLOBAL", "busedef")>>
      [] kind = "method" -> <<OpN("LOAD_GLOBAL", "obj"), OpN("LOAD_ATTR", "run")>>
main_code(kind, caller) ==
    Compile(IF kind = "local" THEN <<"c", "v">> ELSE <<"v">>,
            <<SetLineno(20)>> \o DriverLoad(kind, caller) \o
            <<OpN("LOAD_FAST", "v"), OpI("CALL_FUNCTION", 1), Op0("RETURN_VALUE")>>)

InlineFuncs == {"calculate", "pick", "withdef", "add_to_running_total", "zero",
                "byname", "meth"}
Callers == {"aggregate", "inline_aggregate", "multi", "seq2", "twice",
            "call_inlined_add_to_total", "usedef", "two", "noargs", "kw", "clos",
            "table", "viameth", "viabuiltin", "run"}
FuncNames == InlineFuncs \cup Callers \cup {"boom"}

\* The preamble @inline puts at the top of a function's bytecode.
Preamble(func) ==
    <<Ins("LOAD_CONST", Fn("_inlineme")), Ins("LOAD_CONST", Fn(func)),
      OpI("CALL_FUNCTION", 1), Op0("POP_TOP")>>

\* inline(func): the function's code with the loader inserted at the top.
inline(func, co) ==
    LET c == FromCode(co, "i")
    IN ToCode([c EXCEPT !.code = Preamble(func) \o c.code])

SourceCode(f) ==
    CASE f = "calculate" -> calculate_code
      [] f = "pick" -> pick_code
      [] f = "withdef" -> withdef_code
      [] f = "add_to_running_total" -> add_to_running_total_code
      [] f = "zero" -> zero_code
      [] f = "byname" -> byname_code
      [] f = "meth" -> meth_code
      [] f = "boom" -> boom_code
      [] f = "aggregate" -> aggregate_code
      [] f = "inline_aggregate" -> inline_aggregate_code
      [] f = "multi" -> multi_code
      [] f = "seq2" -> seq2_code
      [] f = "twice" -> twice_code
      [] f = "call_inlined_add_to_total" -> call_inlined_add_to_total_code
      [] f = "usedef" -> usedef_code
      [] f = "two" -> two_code
      [] f = "noargs" -> noargs_code
      [] f = "kw" -> kw_code
      [] f = "clos" -> clos_code
      [] f = "table" -> table_code
      [] f = "viameth" -> viameth_code
      [] f = "viabuiltin" -> viabuiltin_code
      [] f = "run" -> run_code

\* func_code of every function once the module has been imported.
InitialCode == [f \in FuncNames |->
                  IF f \in InlineFuncs THEN inline(f, SourceCode(f)) ELSE SourceCode(f)]

func_defaults(f) == IF f = "withdef" THEN <<PyInt(5)>> ELSE <<>>
func_globals(f) == IF f \in InlineFuncs THEN "tests" ELSE "app"

\* Namespaces: module globals, the builtins, a dict of functions, the
\* attributes of an instance and the closure cells.
Names == {"calculate", "pick", "withdef", "add_to_running_total", "zero",
          "byname", "running_total", "atinline", "tests", "FUNCS", "obj",
          "f", "c", "k", "meth", "run", "bcalc", "busedef", "ValueError"} \cup Callers
Bind(pairs) == [n \in Names |-> IF n \in DOMAIN pairs THEN pairs[n] ELSE Unbound]
InitialNamespaces ==
    [app |-> Bind([f \in (InlineFuncs \ {"meth", "add_to_running_total"}) \cup
                         (Callers \ {"run", "aggregate"}) |-> Fn(f)]
                  @@ [atinline |-> Module("atinline"), FUNCS |-> Dict("FUNCS"),
                      obj |-> Instance("obj")]),
     tests |-> Bind([f \in InlineFuncs \ {"meth"} |-> Fn(f)]
                    @@ [running_total |-> PyInt(0)]),
     atinline |-> Bind([tests |-> Module("tests")]),
     builtin |-> Bind([ValueError |-> Class("ValueError"), bcalc |-> Fn("calculate"),
                       busedef |-> Fn("usedef")]),
     FUNCS |-> Bind([f |-> Fn("calculate"), c |-> Fn("usedef")]),
     obj |-> Bind([meth |-> Method("meth"), run |-> Method("run")]),
     cells |-> Bind([k |-> PyInt(3), calculate |-> Fn("calculate")])]


\* ------------------------------------------------------------------ frames
\* A frame: the function it runs, its code object (f_code), the index i of
\* its current instruction (the CALL_FUNCTION while it waits for a callee,
\* the next instruction to run when it is on top), its value stack, its
\* fast locals and the name of its globals namespace.  mark is the value
\* stack as it was when the frame last entered inlined code.
f_lasti(frame) == Offset(frame.f_code.co_code, frame.i)

RECURSIVE CountInstr(_, _, _, _)
\* The loop of make_code_from_frame over co_code: <<offset, i>> when it ends.
CountInstr(co_code, lasti, k, i) ==
    IF i < lasti /\ k <= Len(co_code)
    THEN CountInstr(co_code, lasti, k + 1, i + OpSize(co_code[k].op))
    ELSE <<k - 1, i>>

\* The asserts of make_code_from_frame and its result.
MadeCode(frame, lasti, w, c, code, offset) ==
    IF w[2] # lasti \/ ~InRange(code, offset) THEN [error |-> "AssertionError"]
    ELSE IF At(code, offset).op # frame.f_code.co_code[frame.i].op
    THEN [error |-> "AssertionError"]
    ELSE [error |-> "", c |-> [c EXCEPT !.code = code], offset |-> offset]

\* make_code_from_frame: the frame's code as a byteplay list without
\* SetLineno entries, and the index in it of the last instruction executed.
make_code_from_frame(frame) ==
    MadeCode(frame, f_lasti(frame),
             CountInstr(frame.f_code.co_code, f_lasti(frame), 1, 0),
             FromCode(frame.f_code, "d"),
             StripLineno(FromCode(frame.f_code, "d").code),
             CountInstr(frame.f_code.co_code, f_lasti(frame), 1, 0)[1]
               + Cardinality({j \in findlabels(frame.f_code.co_code) : j <= f_lasti(frame)}))

Fail(exc) == [ok |-> FALSE, exc |-> exc, at |-> 0]
Found(at) == [ok |-> TRUE, exc |-> "", at |-> at]

RECURSIVE Balance(_, _, _, _)
\* Move backwards until the entries passed push a single item.
Balance(code, loadsite, npop, npush) ==
    IF npush - npop = 1 THEN Found(loadsite)
    ELSE IF ~InRange(code, loadsite - 1) THEN Fail("IndexError")
    ELSE LET se == getse(At(code, loadsite - 1))
         IN IF se = GetseError THEN Fail("ValueError")
            ELSE Balance(code, loadsite - 1, npop + se[1], npush + se[2])

RECURSIVE SkipArgs(_, _, _, _)
\* The loop "while numargs > 0" that walks backwards over the entries that
\* load the arguments.  step is what the loop subtracts from the index
\* after each argument: 1 in find_caller, 0 in _inlineme.
SkipArgs(code, loadsite, numargs, step) ==
    IF numargs <= 0 THEN Found(loadsite)
    ELSE IF ~InRange(code, loadsite) THEN Fail("IndexError")
    ELSE LET se == getse(At(code, loadsite))
         IN IF se = GetseError THEN Fail("ValueError")
            ELSE LET b == Balance(code, loadsite, se[1], se[2])
                 IN IF ~b.ok THEN b
                    ELSE SkipArgs(code, b.at - step, numargs - 1, step)

RECURSIVE SkipAttrs(_, _, _)
\* The loop "while c.code[loadsite][0] in (LOAD_ATTR,)": the index of the
\* first entry before loadsite that is no LOAD_ATTR, and the attribute names.
SkipAttrs(code, loadsite, name) ==
    IF ~InRange(code, loadsite) THEN [ok |-> FALSE, exc |-> "IndexError", at |-> 0, name |-> name]
    ELSE IF At(code, loadsite).op = "LOAD_ATTR"
    THEN SkipAttrs(code, loadsite - 1, <<At(code, loadsite).arg.s>> \o name)
    ELSE [ok |-> TRUE, exc |-> "", at |-> loadsite, name |-> name]

\* find_caller, applied to the frame sys._getframe(depth+1) gives: the
\* namespace and dotted name (a sequence of its parts) the frame's current
\* call loads its function from; kind "none" for the tuple of Nones, kind
\* "raise" when an exception leaves find_caller.
NoCaller == [kind |-> "none", exc |-> "", ns |-> "", name |-> <<>>]
\* The entry that starts the load of the function.
CallerLoad(e, name) ==
    CASE e.op \in {"LOAD_GLOBAL", "LOAD_NAME"} ->
              [kind |-> "ok", exc |-> "", ns |-> "f_globals", name |-> <<e.arg.s>> \o name]
      [] e.op \in {"LOAD_FAST", "LOAD_DEREF"} ->
              [kind |-> "ok", exc |-> "", ns |-> "f_locals", name |-> <<e.arg.s>> \o name]
      [] OTHER -> NoCaller
CallerAttrs(code, attrs) ==
    IF ~attrs.ok THEN [NoCaller EXCEPT !.kind = "raise", !.exc = attrs.exc]
    ELSE CallerLoad(At(code, attrs.at), attrs.name)
CallerArgs(code, skip) ==
    IF ~skip.ok THEN [NoCaller EXCEPT !.kind = "raise", !.exc = skip.exc]
    ELSE CallerAttrs(code, SkipAttrs(code, skip.at, <<>>))
CallerSite(mc) ==
    IF mc.error # "" THEN [NoCaller EXCEPT !.kind = "raise", !.exc = mc.error]
    ELSE IF At(mc.c.code, mc.offset).op # "CALL_FUNCTION" THEN NoCaller
    ELSE CallerArgs(mc.c.code, SkipArgs(mc.c.code, mc.offset - 1,
                                        At(mc.c.code, mc.offset).arg.n, 1))
find_caller(frame) == CallerSite(make_code_from_frame(frame))

\* getattr(obj, attr) on a module or an instance.
HasAttr(g, obj, attr) ==
    obj.t \in {"module", "instance"} /\ attr \in Names /\ g[obj.s][attr] # Unbound

RECURSIVE GetAttrs(_, _, _)
GetAttrs(g, obj, attrs) ==
    IF attrs = <<>> THEN [ok |-> TRUE, exc |-> "", obj |-> obj]
    ELSE IF ~HasAttr(g, obj, attrs[1]) THEN [ok |-> FALSE, exc |-> "AttributeError", obj |-> obj]
    ELSE GetAttrs(g, g[obj.s][attrs[1]], Tail(attrs))

\* lookup_in_namespace: resolve a dotted name (already split at the dots)
\* in a namespace, a mapping from names to values.
lookup_in_namespace(g, name, namespace) ==
    IF name[1] \notin DOMAIN namespace \/ namespace[name[1]] = Unbound
    THEN [ok |-> FALSE, exc |-> "KeyError", obj |-> PyNone]
    ELSE GetAttrs(g, namespace[name[1]], Tail(name))

\* The free variables of a code object.
co_freevars(co) ==
    {co.co_code[i].arg.s : i \in {j \in DOMAIN co.co_code :
                                    co.co_code[j].op \in {"LOAD_DEREF", "STORE_DEREF"}}}
\* frame.f_locals: the fast locals and the free variables of the frame.
f_locals(g, frame) ==
    [n \in DOMAIN frame.locals \cup co_freevars(frame.f_code) |->
        IF n \in DOMAIN frame.locals THEN frame.locals[n] ELSE g.cells[n]]

\* The namespace find_caller returned for a frame.
NamespaceOf(g, frame, ns) ==
    IF ns = "f_globals" THEN g[frame.f_globals] ELSE f_locals(g, frame)

\* A new_name that leaves the id out of the name.
new_name_without_id(id, name) == "_inlined_var_" \o name
\* new_name: the name made from the next id of the generator _ids.
new_name(id, name) == "_inlined_var" \o ToString(id) \o "_" \o name

RECURSIVE RenameOps(_, _, _, _, _)
\* The loop of _rename_local_vars over the code list.  ids is the last id
\* the generator gave out.
RenameOps(code, k, name_map, ids, func) ==
    IF k > Len(code) THEN [ok |-> TRUE, code |-> code, name_map |-> name_map, ids |-> ids]
    ELSE LET e == code[k]
         IN CASE e.op \in FastOps ->
                   IF e.arg.s \in DOMAIN name_map
                   THEN RenameOps([code EXCEPT ![k].arg = PyStr(name_map[e.arg.s])],
                                  k + 1, name_map, ids, func)
                   ELSE LET newarg == new_name(ids + 1, e.arg.s)
                        IN RenameOps([code EXCEPT ![k].arg = PyStr(newarg)], k + 1,
                                     name_map @@ (e.arg.s :> newarg), ids + 1, func)
              [] e.op = "LOAD_GLOBAL" ->
                   RenameOps(SubSeq(code, 1, k - 1)
                               \o <<Ins("LOAD_CONST", Dict(func_globals(func))),
                                    Ins("LOAD_CONST", e.arg), Op0("BINARY_SUBSCR")>>
                               \o SubSeq(code, k + 1, Len(code)),
                             k + 1, name_map, ids, func)
              [] e.op \in {"LOAD_DEREF", "STORE_DEREF", "LOAD_NAME", "STORE_NAME",
                           "DELETE_NAME"} ->
                   [ok |-> FALSE, code |-> code, name_map |-> name_map, ids |-> ids]
              [] OTHER -> RenameOps(code, k + 1, name_map, ids, func)

\* _rename_local_vars: every local of the code gets a new unique name,
\* loads of globals become subscripts of func.func_globals, and closure or
\* by-name references raise ValueError (ok = FALSE).
_rename_local_vars(c, func, ids) ==
    LET co == ToCode(c)
        vn == co.co_varnames
        name_map == [k \in 1..Len(vn) |-> new_name(ids + k, vn[k])]
        byname == [nm \in Range(vn) |-> name_map[IndexOf(vn, nm)]]
    IN IF co = ToCodeError
       THEN [ok |-> FALSE, code |-> c.code, name_map |-> <<>>, ids |-> ids]
       ELSE RenameOps(c.code, 1, byname, ids + Len(vn), func)


\* ---------------------------------------------------------------- _inlineme
RECURSIVE FillDefaults(_, _, _, _, _)
\* "for i in xrange(numargs,numreqd)": bind the parameters the call does not
\* pass to their defaults.  func_defaults is None (here <<>>) for a function
\* without defaults, and len(None) raises TypeError.
FillDefaults(i, numreqd, source, name_map, func) ==
    IF i >= numreqd THEN [ok |-> TRUE, exc |-> "", code |-> source]
    ELSE IF func_defaults(func.name) = <<>>
    THEN [ok |-> FALSE, exc |-> "TypeError", code |-> source]
    ELSE LET argname == func.co_varnames[i + 1]
             defidx == i - numreqd + Len(func_defaults(func.name))
         IN IF ~InRange(func_defaults(func.name), defidx)
            THEN [ok |-> FALSE, exc |-> "IndexError", code |-> source]
            ELSE FillDefaults(i + 1, numreqd,
                     Insert0(Insert0(source, OpN("STORE_FAST", name_map[argname])),
                             Ins("LOAD_CONST", At(func_defaults(func.name), defidx))),
                     name_map, func)

\* The entries spliced into the caller carry the number of the inlining.
Tagged(code, tag) == [k \in 1..Len(code) |-> [code[k] EXCEPT !.src = tag]]

\* A replacement of returns that replaces nothing.
KeepReturns(code, end) == code
ReplaceReturns(code, end) ==
    [k \in 1..Len(code) |->
        IF code[k].op = "RETURN_VALUE" THEN Ins("JUMP_ABSOLUTE", end) ELSE code[k]]

RECURSIVE SpliceLoop(_, _, _, _, _)
\* "for i in xrange(numargs)" of _inlineme with everything the source
\* indents under it: the STORE_FAST of argument i, the defaults, the end
\* label, the replacement of RETURN_VALUE, the splice into the caller's list
\* at callsite and the deletion of [loadsite_start, loadsite_end).
SpliceLoop(i, numargs, source, dest, x) ==
    IF i >= numargs THEN [ok |-> TRUE, exc |-> "", source |-> source, dest |-> dest]
    ELSE IF i >= Len(x.func.co_varnames)
    THEN [ok |-> FALSE, exc |-> "IndexError", source |-> source, dest |-> dest]
    ELSE LET argname == x.func.co_varnames[i + 1]
             s1 == Insert0(source, OpN("STORE_FAST", x.name_map[argname]))
             numreqd == x.func.co_argcount
             s2 == FillDefaults(numargs, numreqd, s1, x.name_map, x.func)
             end == Lbl("e", i)
             s3 == ReplaceReturns(Append(s2.code, Label(end)), end)
             d1 == SliceAssign(dest, x.callsite, x.callsite + 1, Tagged(s3, x.tag))
             d2 == SliceDel(d1, x.loadsite_start, x.loadsite_end)
         IN IF ~s2.ok
            THEN [ok |-> FALSE, exc |-> s2.exc, source |-> source, dest |-> dest]
            ELSE SpliceLoop(i + 1, numargs, s3, d2, x)

\* What one call of _inlineme leaves behind: the path it took, the function
\* codes, the memo table and the id generator afterwards, the exception that
\* left it (path "raise"), the caller and frame offset it worked on, the
\* caller's code list before and after the splice loop, and the name map
\* _rename_local_vars made.
Outcome(fcode, memo, ids) ==
    [path |-> "", exc |-> "", func_code |-> fcode, memo |-> memo, ids |-> ids,
     caller |-> "", lasti |-> -1, spliced |-> <<>>, numargs |-> -1,
     renamed |-> FALSE, name_map |-> <<>>, before |-> <<>>]
Raised(out, exc) == [out EXCEPT !.path = "raise", !.exc = exc]
\* _ALREADY_INLINED.setdefault(caller,[]).append(frame.f_lasti)
Remember(out, path) ==
    [out EXCEPT !.path = path, !.memo = [out.memo EXCEPT ![out.caller] = Append(@, out.lasti)]]

\* Line 273: caller.func_code = dest_code.to_code(), and line 274.
Install(caller, o1, co) ==
    IF co = ToCodeError THEN Raised(o1, "ValueError")
    ELSE Remember([o1 EXCEPT !.func_code[caller] = co], "done")
Spliced(caller, dest_code, o1, loop) ==
    IF ~loop.ok THEN Raised(o1, loop.exc)
    ELSE Install(caller, [o1 EXCEPT !.spliced = loop.dest],
                 ToCode([code |-> loop.dest, args |-> dest_code.args]))
\* Lines 243-248: a call with keyword arguments is remembered and left alone.
Splice(caller, dest_code, source, dest, x, operand, o1) ==
    IF operand % 256 # operand THEN Remember([o1 EXCEPT !.numargs = operand % 256], "kwargs")
    ELSE Spliced(caller, dest_code, [o1 EXCEPT !.numargs = operand % 256],
                 SpliceLoop(0, operand % 256, source, dest, x))

\* Rewrite with "new_code[4:]" written as "new_code": the loader that calls
\* _inlineme stays in the inlined body.
RewriteKeepLoader(func, caller, callsite, loadsite_start, loadsite_end, rn, dest_code, tag, out) ==
    Splice(caller, dest_code,
           StripLineno(rn.code),
           StripLineno(dest_code.code),
           [func |-> [name |-> func,
                      co_varnames |-> out.func_code[func].co_varnames,
                      co_argcount |-> out.func_code[func].co_argcount],
            name_map |-> rn.name_map, callsite |-> callsite,
            loadsite_start |-> loadsite_start, loadsite_end |-> loadsite_end,
            tag |-> tag],
           At(StripLineno(dest_code.code), callsite).arg.n,
           [out EXCEPT !.ids = rn.ids])
\* Lines 237-274: strip the line numbers and the loader, refuse keyword
\* arguments, splice, and install the new code object.
Rewrite(func, caller, callsite, loadsite_start, loadsite_end, rn, dest_code, tag, out) ==
    Splice(caller, dest_code,
           SubSeq(StripLineno(rn.code), 5, Len(StripLineno(rn.code))),
           StripLineno(dest_code.code),
           [func |-> [name |-> func,
                      co_varnames |-> out.func_code[func].co_varnames,
                      co_argcount |-> out.func_code[func].co_argcount],
            name_map |-> rn.name_map, callsite |-> callsite,
            loadsite_start |-> loadsite_start, loadsite_end |-> loadsite_end,
            tag |-> tag],
           At(StripLineno(dest_code.code), callsite).arg.n,
           [out EXCEPT !.ids = rn.ids])

\* What the call has learnt once _rename_local_vars has run.
Noted(out, rn, dest_code) ==
    [out EXCEPT !.ids = rn.ids, !.renamed = TRUE, !.name_map = rn.name_map,
                !.before = StripLineno(dest_code.code)]
\* Renamed with the renaming done on the callee's own code object instead
\* of a copy: the names renamed before the ValueError stay renamed.
RenamedInPlace(func, caller, tag, out, callsite, loadsite_start, loadsite_end, dest_code, rn) ==
    IF ~rn.ok
    THEN Remember([Noted(out, rn, dest_code) EXCEPT
                      !.func_code[func] =
                          ToCode([code |-> rn.code,
                                  args |-> [k \in 1..out.func_code[func].co_argcount |->
                                              rn.name_map[out.func_code[func].co_varnames[k]]]])],
                  "rename")
    ELSE Rewrite(func, caller, callsite, loadsite_start, loadsite_end, rn, dest_code, tag,
                 Noted(out, rn, dest_code))
\* Lines 229-236: a source that cannot be renamed is remembered and left alone.
Renamed(func, caller, tag, out, callsite, loadsite_start, loadsite_end, dest_code, rn) ==
    IF ~rn.ok THEN Remember(Noted(out, rn, dest_code), "rename")
    ELSE Rewrite(func, caller, callsite, loadsite_start, loadsite_end, rn, dest_code, tag,
                 Noted(out, rn, dest_code))
LocateAttrs(func, caller, tag, out, callsite, loadsite_end, attrs) ==
    IF ~attrs.ok THEN Raised(out, attrs.exc)
    ELSE Renamed(func, caller, tag, out, callsite, attrs.at, loadsite_end,
                 FromCode(out.func_code[caller], "d"),
                 _rename_local_vars(FromCode(out.func_code[func], "s"), func, out.ids))
\* Lines 214-228: the walk back over the arguments ("loadsite_end -= 1" is
\* commented out in the source) and over the attribute loads.
LocateArgs(func, caller, tag, out, c, callsite, skip) ==
    IF ~skip.ok THEN Raised(out, skip.exc)
    ELSE LocateAttrs(func, caller, tag, out, callsite, skip.at,
                     SkipAttrs(c, skip.at - 1, <<>>))
LocateSite(func, caller, tag, out, mc) ==
    IF mc.error # "" THEN Raised(out, mc.error)
    ELSE IF At(mc.c.code, mc.offset).op # "CALL_FUNCTION" THEN Remember(out, "not_call")
    ELSE LocateArgs(func, caller, tag, out, mc.c.code, mc.offset,
                    SkipArgs(mc.c.code, mc.offset - 1, At(mc.c.code, mc.offset).arg.n, 0))

\* Lines 208-236: find the call site and the entries that load the target
\* function, and rename the locals of the source bytecode.
Locate(func, caller, frame, tag, out) ==
    LocateSite(func, caller, tag, out, make_code_from_frame(frame))

\* A memo test that never finds the call site.
NeverInlined(memo, caller, lasti) == FALSE
\* The test "frame.f_lasti in _ALREADY_INLINED.get(caller,[])".
AlreadyInlined(memo, caller, lasti) == lasti \in Range(memo[caller])

\* Lines 200-207: the name must resolve to func, and the frame must run the
\* code object the caller has now.
TargetLooked(func, caller, frame, tag, out, lk) ==
    IF ~lk.ok THEN [out EXCEPT !.path = "func_lookup"]
    ELSE IF lk.obj # Fn(func) THEN [out EXCEPT !.path = "func_differs"]
    ELSE IF ~CodeEq(frame.f_code, out.func_code[caller]) THEN Remember(out, "stale")
    ELSE Locate(func, caller, frame, tag, out)
TargetFound(func, caller, frame, g, tag, out, fc) ==
    IF fc.kind = "raise" THEN Raised(out, fc.exc)
    ELSE IF fc.kind = "none" THEN [out EXCEPT !.path = "no_func"]
    ELSE IF AlreadyInlined(out.memo, caller, out.lasti) THEN [out EXCEPT !.path = "memo"]
    ELSE TargetLooked(func, caller, frame, tag, out,
                      lookup_in_namespace(g, fc.name, NamespaceOf(g, frame, fc.ns)))

\* Lines 190-207: the function being inlined runs at depth 2; bail out when
\* it cannot be found, when the call site is in the memo table, when the
\* name does not resolve to func, or when the frame runs another code
\* object than the caller has now.
Target(func, caller, frame, g, tag, out0) ==
    TargetFound(func, caller, frame, g, tag,
                [out0 EXCEPT !.caller = caller, !.lasti = f_lasti(frame)],
                find_caller(frame))

\* Lines 183-189: the caller must resolve to a plain function.
CallerLooked(func, frames, g, tag, out, lk) ==
    IF ~lk.ok THEN [out EXCEPT !.path = "caller_lookup"]
    ELSE IF lk.obj.t # "function" THEN [out EXCEPT !.path = "caller_type"]
    ELSE Target(func, lk.obj.s, frames[Len(frames) - 1], g, tag, out)
CallerFound(func, frames, g, tag, out, fc) ==
    IF fc.kind = "raise" THEN Raised(out, fc.exc)
    ELSE IF fc.kind = "none" THEN [out EXCEPT !.path = "no_caller"]
    ELSE CallerLooked(func, frames, g, tag, out,
                      lookup_in_namespace(g, fc.name,
                                          NamespaceOf(g, frames[Len(frames) - 2], fc.ns)))

\* _inlineme(func), called from the loader at the top of func: frames is
\* the stack with func's frame on top (depth 2), its caller below it
\* (depth 3) and the caller's caller below that (depth 4).
_inlineme(func, frames, g, fcode, memo, ids, tag) ==
    IF Len(frames) < 3 THEN Raised(Outcome(fcode, memo, ids), "ValueError")
    ELSE CallerFound(func, frames, g, tag, Outcome(fcode, memo, ids),
                     find_caller(frames[Len(frames) - 2]))


\* ------------------------------------------------------------ the interpreter
Top(fs) == fs[Len(fs)]
CurIns(frame) == frame.f_code.co_code[frame.i]
IndexAt(co_code, off) == CHOOSE k \in 1..Len(co_code) : Offset(co_code, k) = off
Truth(v) == CASE v.t = "int" -> v.n # 0 [] v.t = "none" -> FALSE [] OTHER -> TRUE

Next1(frame, g) == [k |-> "next", frame |-> frame, g |-> g]
Raise1(frame, g, exc) == [k |-> "raise", frame |-> frame, g |-> g, exc |-> exc]
Advance(frame, stack) == [frame EXCEPT !.stack = stack, !.i = @ + 1]
JumpTo(frame, stack, off) ==
    [frame EXCEPT !.stack = stack, !.i = IndexAt(frame.f_code.co_code, off)]

\* LOAD_GLOBAL: the frame's globals, then the builtins.
LoadGlobal(frame, g, name) ==
    IF g[frame.f_globals][name] # Unbound THEN g[frame.f_globals][name]
    ELSE g.builtin[name]

Arith(op, a, b) == IF op = "BINARY_MULTIPLY" THEN PyInt(a.n * b.n) ELSE PyInt(a.n + b.n)

\* CALL_FUNCTION: the callable, the positional arguments and the keyword
\* pairs on the stack.
CallShape(frame) ==
    LET st == frame.stack
        operand == CurIns(frame).arg.n
        npos == operand % 256
        nkw == (operand \div 256) % 256
        base == Len(st) - npos - 2 * nkw
    IN [callee |-> st[base],
        args |-> SubSeq(st, base + 1, base + npos),
        kw |-> [j \in 1..nkw |-> <<st[base + npos + 2 * j - 1].s, st[base + npos + 2 * j]>>],
        below |-> SubSeq(st, 1, base - 1)]

\* One instruction of the frame on top, calls and returns aside.
Exec(frame, g) ==
    LET e == CurIns(frame)
        st == frame.stack
        n == Len(st)
        name == e.arg.s
    IN CASE e.op = "LOAD_CONST" -> Next1(Advance(frame, Append(st, e.arg)), g)
         [] e.op = "LOAD_FAST" ->
              IF frame.locals[name] = Unbound THEN Raise1(frame, g, "UnboundLocalError")
              ELSE Next1(Advance(frame, Append(st, frame.locals[name])), g)
         [] e.op = "STORE_FAST" ->
              Next1(Advance([frame EXCEPT !.locals[name] = st[n]], Front(st)), g)
         [] e.op = "DELETE_FAST" ->
              Next1(Advance([frame EXCEPT !.locals[name] = Unbound], st), g)
         [] e.op \in {"LOAD_GLOBAL", "LOAD_NAME"} ->
              IF LoadGlobal(frame, g, name) = Unbound THEN Raise1(frame, g, "NameError")
              ELSE Next1(Advance(frame, Append(st, LoadGlobal(frame, g, name))), g)
         [] e.op \in {"STORE_GLOBAL", "STORE_NAME"} ->
              Next1(Advance(frame, Front(st)), [g EXCEPT ![frame.f_globals][name] = st[n]])
         [] e.op \in {"DELETE_GLOBAL", "DELETE_NAME"} ->
              IF g[frame.f_globals][name] = Unbound THEN Raise1(frame, g, "NameError")
              ELSE Next1(Advance(frame, st), [g EXCEPT ![frame.f_globals][name] = Unbound])
         [] e.op = "LOAD_DEREF" ->
              IF g.cells[name] = Unbound THEN Raise1(frame, g, "NameError")
              ELSE Next1(Advance(frame, Append(st, g.cells[name])), g)
         [] e.op = "LOAD_ATTR" ->
              IF ~HasAttr(g, st[n], name) THEN Raise1(frame, g, "AttributeError")
              ELSE Next1(Advance(frame, Append(Front(st), g[st[n].s][name])), g)
         [] e.op \in {"BINARY_ADD", "INPLACE_ADD", "BINARY_MULTIPLY"} ->
              IF st[n - 1].t # "int" \/ st[n].t # "int" THEN Raise1(frame, g, "TypeError")
              ELSE Next1(Advance(frame, Append(SubSeq(st, 1, n - 2),
                                               Arith(e.op, st[n - 1], st[n]))), g)
         [] e.op = "BINARY_SUBSCR" ->
              IF st[n - 1].t # "dict" THEN Raise1(frame, g, "TypeError")
              ELSE IF st[n].t # "str" \/ st[n].s \notin Names
                      \/ g[st[n - 1].s][st[n].s] = Unbound
              THEN Raise1(frame, g, "KeyError")
              ELSE Next1(Advance(frame, Append(SubSeq(st, 1, n - 2),
                                               g[st[n - 1].s][st[n].s])), g)
         [] e.op = "POP_TOP" -> Next1(Advance(frame, Front(st)), g)
         [] e.op = "GET_ITER" ->
              IF st[n].t # "xrange" THEN Raise1(frame, g, "TypeError")
              ELSE Next1(Advance(frame, Append(Front(st), Iter(0, st[n].n))), g)
         [] e.op = "FOR_ITER" ->
              IF st[n].n < st[n].m
              THEN Next1(Advance(frame, Front(st) \o <<Iter(st[n].n + 1, st[n].m),
                                                        PyInt(st[n].n)>>), g)
              ELSE Next1(JumpTo(frame, Front(st), e.arg.n), g)
         [] e.op \in {"SETUP_LOOP", "POP_BLOCK"} -> Next1(Advance(frame, st), g)
         [] e.op \in {"JUMP_ABSOLUTE", "JUMP_FORWARD"} -> Next1(JumpTo(frame, st, e.arg.n), g)
         [] e.op = "POP_JUMP_IF_FALSE" ->
              IF Truth(st[n]) THEN Next1(Advance(frame, Front(st)), g)
              ELSE Next1(JumpTo(frame, Front(st), e.arg.n), g)
         [] e.op = "RAISE_VARARGS" -> Raise1(frame, g, st[n].s)
         [] e.op = "RETURN_VALUE" -> [k |-> "return", frame |-> frame, g |-> g, val |-> st[n]]
         [] e.op = "CALL_FUNCTION" ->
              LET c == CallShape(frame)
              IN CASE c.callee = Fn("_inlineme") ->
                        [k |-> "inlineme", frame |-> frame, g |-> g, func |-> c.args[1].s]
                   [] c.callee.t = "class" ->
                        Next1(Advance(frame, Append(c.below, Exc(c.callee.s))), g)
                   [] c.callee.t \in {"function", "instancemethod"} ->
                        [k |-> "call", frame |-> frame, g |-> g, func |-> c.callee.s,
                         args |-> IF c.callee.t = "instancemethod"
                                  THEN <<Instance("obj")>> \o c.args ELSE c.args,
                         kw |-> c.kw]
                   [] OTHER -> Raise1(frame, g, "TypeError")

\* The fast locals of a new frame of func: positional arguments, keyword
\* arguments, defaults.  A parameter left Unbound is a TypeError.
BindArgs(co, func, args, kw) ==
    [v \in Range(co.co_varnames) |->
        LET p == IndexOf(co.co_varnames, v)
            d == p - (co.co_argcount - Len(func_defaults(func)))
        IN IF p <= Len(args) /\ p <= co.co_argcount THEN args[p]
           ELSE IF p <= co.co_argcount /\ \E j \in 1..Len(kw) : kw[j][1] = v
           THEN kw[CHOOSE j \in 1..Len(kw) : kw[j][1] = v][2]
           ELSE IF p <= co.co_argcount /\ d >= 1 THEN func_defaults(func)[d]
           ELSE Unbound]
BadCall(co, locals, args, kw) ==
    \/ Len(args) > co.co_argcount
    \/ \E p \in 1..co.co_argcount : locals[co.co_varnames[p]] = Unbound
    \/ \E j \in 1..Len(kw) : IndexOf(co.co_varnames, kw[j][1]) \notin 1..co.co_argcount
    \/ \E j \in 1..Len(kw) : IndexOf(co.co_varnames, kw[j][1]) <= Len(args)

NewFrame(func, co, locals) ==
    [func |-> func, f_code |-> co, i |-> 1, stack |-> <<>>, locals |-> locals,
     f_globals |-> func_globals(func), inl |-> 0, mark |-> <<>>]

\* Before an instruction runs, the frame notes which inlining the
\* instruction belongs to, and on entering an inlined body its value stack.
Track(frame) ==
    LET t == CurIns(frame).src
    IN [frame EXCEPT !.inl = t,
                     !.mark = IF t # 0 /\ frame.inl # t THEN frame.stack ELSE @]

\* The frame after its callee returned val: the callable and the arguments
\* leave the stack and the value takes their place.
Resume(frame, val) == Advance(frame, Append(CallShape(frame).below, val))

\* A call of a Python function: bind the arguments and push a frame.
Enter(r, under, co, locals) ==
    IF BadCall(co, locals, r.args, r.kw)
    THEN [k |-> "raise", fs |-> <<>>, g |-> r.g, exc |-> "TypeError"]
    ELSE [k |-> "call", g |-> r.g,
          fs |-> Append(Append(under, r.frame), NewFrame(r.func, co, locals))]
Dispatch(r, under, fcode) ==
    CASE r.k = "next" -> [k |-> "next", fs |-> Append(under, r.frame), g |-> r.g]
      [] r.k = "raise" -> [k |-> "raise", fs |-> <<>>, g |-> r.g, exc |-> r.exc]
      [] r.k = "return" ->
           IF under = <<>> THEN [k |-> "finish", fs |-> <<>>, g |-> r.g, val |-> r.val]
           ELSE [k |-> "return", g |-> r.g,
                 fs |-> Append(Front(under), Resume(Top(under), r.val))]
      [] r.k = "call" ->
           Enter(r, under, fcode[r.func], BindArgs(fcode[r.func], r.func, r.args, r.kw))
      [] r.k = "inlineme" ->
           [k |-> "inlineme", fs |-> Append(under, r.frame), g |-> r.g, func |-> r.func]

\* One step of the frame stack.  fcode is the code every function has now;
\* an "inlineme" step is left to the caller of this operator.
Machine(fs, g, fcode) == Dispatch(Exec(Track(Top(fs)), g), Front(fs), fcode)


\* ------------------------------------------------------------------- state
\* scn               the caller under test and how the driver loads it
\* func_code         func.func_code of every function
\* ns                the namespaces
\* frames            the frame stack, <<>> between invocations
\* _ALREADY_INLINED  the memo table: caller -> list of frame offsets
\* _ids              the last id the generator _ids gave out
\* invocations       invocations of the caller started so far
\* cur, done         the running invocation and the last one that ended
\* last              the last call of _inlineme
\* failed            the <<caller, offset, path>> memoized by a bail-out
\* inlinings         the rewrites done: caller, callee, number of arguments,
\*                   name map
\* issued            the name maps _rename_local_vars made, in order
VARIABLES scn, func_code, ns, frames, _ALREADY_INLINED, _ids, invocations,
          cur, done, last, failed, inlinings, issued
vars == <<scn, func_code, ns, frames, _ALREADY_INLINED, _ids, invocations,
          cur, done, last, failed, inlinings, issued>>

Scenarios ==
    {[caller |-> c, driver |-> "plain"] : c \in Callers \ {"run", "aggregate"}}
    \cup {[caller |-> "aggregate", driver |-> "local"]}
    \cup {[caller |-> "usedef", driver |-> d] : d \in {"local", "subscr", "builtin"}}
    \cup {[caller |-> "run", driver |-> "method"]}

LoopCallers == {"aggregate", "inline_aggregate", "multi"}
Inputs(caller) ==
    IF caller \in LoopCallers THEN {XRange(n) : n \in 0..MaxInput}
    ELSE {PyInt(n) : n \in 0..MaxInput}

\* The names through which each caller reaches its callees.
RebindSites(caller) ==
    CASE caller \in {"inline_aggregate", "twice"} -> {<<"app", "calculate">>}
      [] caller \in {"multi", "seq2"} -> {<<"app", "calculate">>, <<"app", "pick">>}
      [] caller = "call_inlined_add_to_total" -> {<<"tests", "add_to_running_total">>}
      [] caller \in {"usedef", "two", "kw", "run"} -> {<<"app", "withdef">>}
      [] caller = "aggregate" -> {<<"cells", "calculate">>}
      [] caller = "noargs" -> {<<"app", "zero">>}
      [] caller = "clos" -> {<<"app", "byname">>}
      [] caller = "table" -> {<<"FUNCS", "f">>}
      [] caller = "viameth" -> {<<"obj", "meth">>}
      [] caller = "viabuiltin" -> {<<"builtin", "bcalc">>}

DriverFrame(s, input) ==
    LET co == main_code(s.driver, s.caller)
    IN NewFrame("main", co,
                [v \in Range(co.co_varnames) |-> IF v = "c" THEN Fn(s.caller) ELSE input])

Value(v) == [kind |-> "value", val |-> v, exc |-> ""]
Error(exc) == [kind |-> "raise", val |-> PyNone, exc |-> exc]
NoResult == [kind |-> "none", val |-> PyNone, exc |-> ""]

RefWent(st, m) ==
    CASE m.k = "finish" -> [st EXCEPT !.res = Value(m.val)]
      [] m.k = "raise" -> [st EXCEPT !.res = Error(m.exc)]
      [] m.k = "inlineme" ->
           [fs |-> Append(Front(m.fs), Resume(Top(m.fs), PyNone)), g |-> m.g,
            res |-> NoResult]
      [] OTHER -> [fs |-> m.fs, g |-> m.g, res |-> NoResult]
\* One step of a run with the functions' original code and every call made
\* for real: the loader's call of _inlineme returns None and changes nothing.
\* res is the result once the run has ended.
Ref1(st) ==
    IF st.res # NoResult THEN st ELSE RefWent(st, Machine(st.fs, st.g, InitialCode))
Ref4(st) == Ref1(Ref1(Ref1(Ref1(st))))

RECURSIVE RefEnd(_)
RefFar(s) == IF s.res # NoResult THEN s.res ELSE RefEnd(s)
RefEnd(st) == RefFar(Ref4(Ref4(st)))

\* The result of running a frame stack to its end with the original code.
RefRun(fs, g) == RefEnd([fs |-> fs, g |-> g, res |-> NoResult])

\* The namespaces with every rebound function name bound as at import.
Original(g) ==
    [n \in DOMAIN g |-> [x \in Names |->
        IF g[n][x] = Fn("boom") THEN InitialNamespaces[n][x] ELSE g[n][x]]]

\* A code object holds inlined instructions; the calls it still makes.
IsRewritten(co) == \E k \in 1..Len(co.co_code) : co.co_code[k].src # 0
CallsLeft(co) ==
    Cardinality({k \in 1..Len(co.co_code) :
                    co.co_code[k].op = "CALL_FUNCTION" /\ co.co_code[k].src = 0})

NoCall ==
    [n |-> 0, func |-> "", caller |-> "", lasti |-> -1, path |-> "", exc |-> "",
     in_memo |-> FALSE, had_failed |-> FALSE, deferred |-> FALSE, current |-> FALSE,
     changed |-> FALSE,
     numargs |-> -1, spliced |-> <<>>, before |-> <<>>]

Init ==
    /\ scn \in Scenarios
    /\ func_code = InitialCode
    /\ ns = InitialNamespaces
    /\ frames = <<>>
    /\ _ALREADY_INLINED = [f \in FuncNames |-> <<>>]
    /\ _ids = 0
    /\ invocations = 0
    /\ cur = [input |-> PyNone, expect |-> NoResult, rewritten |-> FALSE,
              primed |-> FALSE, sites |-> 0, entered |-> 0, called |-> 0]
    /\ done = [n |-> 0, input |-> PyNone, expect |-> NoResult, rewritten |-> FALSE,
               primed |-> FALSE, sites |-> 0, entered |-> 0, called |-> 0,
               result |-> NoResult, rebound |-> FALSE]
    /\ last = NoCall
    /\ failed = {}
    /\ inlinings = <<>>
    /\ issued = <<>>

Rebound == \E b \in RebindSites(scn.caller) : ns[b[1]][b[2]] = Fn("boom")

Finish(result) ==
    done' = [n |-> invocations, input |-> cur.input, expect |-> cur.expect,
             rewritten |-> cur.rewritten, primed |-> cur.primed, sites |-> cur.sites,
             entered |-> cur.entered, called |-> cur.called, result |-> result,
             rebound |-> Rebound]

\* The driver invokes the caller on an input.
Invoke ==
    /\ frames = <<>>
    /\ invocations < MaxInvocations
    /\ \E input \in Inputs(scn.caller) :
          /\ frames' = <<DriverFrame(scn, input)>>
          /\ cur' = [input |-> input,
                     expect |-> RefRun(<<DriverFrame(scn, input)>>, Original(ns)),
                     rewritten |-> IsRewritten(func_code[scn.caller]),
                     primed |-> last.n > 0,
                     sites |-> CallsLeft(func_code[scn.caller]),
                     entered |-> 0, called |-> 0]
    /\ invocations' = invocations + 1
    /\ UNCHANGED <<scn, func_code, ns, _ALREADY_INLINED, _ids, done, last, failed,
                   inlinings, issued>>

\* Between invocations the names of the callees are rebound to a function
\* that raises ValueError("failed to inline"), as test_basic_inlining does.
Rebind ==
    /\ frames = <<>>
    /\ invocations < MaxInvocations
    /\ ~Rebound
    /\ ns' = [n \in DOMAIN ns |-> [x \in Names |->
                 IF <<n, x>> \in RebindSites(scn.caller) THEN Fn("boom") ELSE ns[n][x]]]
    /\ UNCHANGED <<scn, func_code, frames, _ALREADY_INLINED, _ids, invocations, cur,
                   done, last, failed, inlinings, issued>>

\* The frame on top runs one instruction.
Step ==
    /\ frames # <<>>
    /\ \E m \in {Machine(frames, ns, func_code)} :
          /\ m.k = "next"
          /\ frames' = m.fs
          /\ ns' = m.g
    /\ UNCHANGED <<scn, func_code, _ALREADY_INLINED, _ids, invocations, cur, done, last,
                   failed, inlinings, issued>>

\* CALL_FUNCTION of a Python function: a new frame runs its current code.
Call ==
    /\ frames # <<>>
    /\ \E m \in {Machine(frames, ns, func_code)} :
          /\ m.k = "call"
          /\ frames' = m.fs
          /\ cur' = [cur EXCEPT !.called = @ + (IF Top(m.fs).func \in InlineFuncs THEN 1 ELSE 0)]
    /\ UNCHANGED <<scn, func_code, ns, _ALREADY_INLINED, _ids, invocations, done, last,
                   failed, inlinings, issued>>

\* RETURN_VALUE: the frame below resumes, or the invocation ends.
Return ==
    /\ frames # <<>>
    /\ \E m \in {Machine(frames, ns, func_code)} :
          /\ m.k \in {"return", "finish"}
          /\ frames' = m.fs
          /\ IF m.k = "finish" THEN Finish(Value(m.val)) ELSE done' = done
    /\ UNCHANGED <<scn, func_code, ns, _ALREADY_INLINED, _ids, invocations, cur, last,
                   failed, inlinings, issued>>

\* An exception leaves every frame (the program has no handlers).
Raise ==
    /\ frames # <<>>
    /\ \E m \in {Machine(frames, ns, func_code)} :
          /\ m.k = "raise"
          /\ frames' = m.fs
          /\ Finish(Error(m.exc))
    /\ UNCHANGED <<scn, func_code, ns, _ALREADY_INLINED, _ids, invocations, cur, last,
                   failed, inlinings, issued>>

FailPaths == {"stale", "not_call", "rename", "kwargs"}

\* The loader at the top of an @inline function calls _inlineme(func).
InlineMe ==
    /\ frames # <<>>
    /\ \E m \in {Machine(frames, ns, func_code)} :
          /\ m.k = "inlineme"
          /\ \E out \in {_inlineme(m.func, m.fs, ns, func_code, _ALREADY_INLINED, _ids,
                                   Len(inlinings) + 1)} :
                /\ func_code' = out.func_code
                /\ _ALREADY_INLINED' = out.memo
                /\ _ids' = out.ids
                /\ issued' = IF out.renamed THEN Append(issued, out.name_map) ELSE issued
                /\ failed' = IF out.path \in FailPaths
                             THEN failed \cup {<<out.caller, out.lasti, out.path>>}
                             ELSE failed
                /\ inlinings' = IF out.path = "done" /\ out.numargs >= 1
                                THEN Append(inlinings, [caller |-> out.caller,
                                                        func |-> m.func,
                                                        numargs |-> out.numargs,
                                                        name_map |-> out.name_map])
                                ELSE inlinings
                /\ last' = [n |-> last.n + 1, func |-> m.func, caller |-> out.caller,
                            lasti |-> out.lasti, path |-> out.path, exc |-> out.exc,
                            in_memo |-> out.caller # "" /\
                                AlreadyInlined(_ALREADY_INLINED, out.caller, out.lasti),
                            had_failed |-> \E f \in failed :
                                f[1] = out.caller /\ f[2] = out.lasti,
                            deferred |-> <<out.caller, out.lasti, "stale">> \in failed,
                            current |-> out.caller # "" /\
                                CodeEq(m.fs[Len(m.fs) - 1].f_code, func_code[out.caller]),
                            changed |-> out.func_code # func_code,
                            numargs |-> out.numargs, spliced |-> out.spliced,
                            before |-> out.before]
                /\ cur' = [cur EXCEPT !.entered = @ + 1]
                /\ IF out.path = "raise"
                   THEN frames' = <<>> /\ Finish(Error(out.exc))
                   ELSE /\ frames' = Append(Front(m.fs), Resume(Top(m.fs), PyNone))
                        /\ done' = done
    /\ UNCHANGED <<scn, ns, invocations>>

Next == Invoke \/ Rebind \/ Step \/ Call \/ Return \/ Raise \/ InlineMe

Spec == Init /\ [][Next]_vars


\* ------------------------------------------------------------------ claims
\* Callers whose calls of @inline functions all load the callee by a plain
\* global name and pass one positional argument.
OneArgCallers == {"aggregate", "inline_aggregate", "multi", "seq2", "twice", "usedef"}

SingleSiteCallers == {"aggregate", "inline_aggregate", "usedef", "noargs", "two"}

\* C2: once an invocation of the caller has executed its plain call of the
\* @inline function, every later invocation runs without calling the callee
\* and without entering _inlineme, and returns what the original returns
\* even when the callee's name has been rebound.
C2_LaterInvocationsSkipTheCall ==
    (/\ done.n > 0
     /\ scn.driver \in {"plain", "local"}
     /\ scn.caller \in SingleSiteCallers
     /\ done.primed)
    => (done.entered = 0 /\ done.called = 0 /\ done.result = done.expect)

\* C3: the global-variable accesses of an inlined body never operate on the
\* caller's globals: apart from rebinding by the driver, the caller's module
\* namespace stays as it was at import.
C3_InlinedGlobalsStayInCalleeNamespace ==
    \A x \in Names : ns.app[x] \in {InitialNamespaces.app[x], Fn("boom")}

EarlyReturnPaths ==
    {"no_caller", "no_func", "caller_lookup", "func_lookup", "caller_type",
     "func_differs", "stale", "not_call", "rename"}

\* C4: a call of _inlineme that ends on an early-return path (caller or
\* callee not determinable, name lookup failing, caller not a plain
\* function, looked-up object not func, stale frame code, call site not a
\* CALL_FUNCTION, closure or by-name references) leaves every function's
\* code object as it was.
C4_EarlyReturnChangesNothing ==
    last.path \in EarlyReturnPaths => ~last.changed

\* The second call site of twice, reached by a frame that still runs the
\* code the first rewrite replaced.
C4_Witness ==
    /\ last.path = "stale"
    /\ IsRewritten(func_code[last.caller])
    /\ ~last.changed

\* C5: a call that passes keyword arguments is a silent bail-out: _inlineme
\* raises nothing, changes no code, records the call site in the memo, and
\* the call goes on as an ordinary call.
C5_KeywordCallBailsOutSilently ==
    /\ (last.n > 0 /\ scn.caller = "kw")
          => /\ last.path = "kwargs"
             /\ ~last.changed
             /\ last.lasti \in Range(_ALREADY_INLINED["kw"])
    /\ (done.n > 0 /\ scn.caller = "kw" /\ ~done.rebound)
          => done.result = done.expect

Block(code, t) == LET Has(e) == e.src = t IN SelectSeq(code, Has)
BlockAt(code, t) == {j \in 1..Len(code) : code[j].src = t}
Count(code, op) == Cardinality({j \in 1..Len(code) : code[j].op = op})

\* The entries lo .. lo+len-1 of a code list load the function func: a load
\* of a name, then attribute loads, the last of them naming func.
LoadsFunc(code, lo, len, func) ==
    /\ code[lo].op \in {"LOAD_GLOBAL", "LOAD_NAME", "LOAD_FAST", "LOAD_DEREF"}
    /\ \A j \in (lo + 1)..(lo + len - 1) : code[j].op = "LOAD_ATTR"
    /\ code[lo + len - 1].arg.s = func

RECURSIVE BindParams(_, _, _, _, _)
\* The entries that bind the parameters i .. n-1 of func, the stack holding
\* the k arguments: defaults for the parameters from k on, then the
\* arguments from the top of the stack down.
BindParams(i, k, n, func, name_map) ==
    IF i >= n THEN <<>>
    ELSE LET argname == func_code[func].co_varnames[i + 1]
             store == OpN("STORE_FAST", name_map[argname])
         IN IF i >= k
            THEN BindParams(i + 1, k, n, func, name_map)
                   \o <<Ins("LOAD_CONST", func_defaults(func)[i - n + Len(func_defaults(func)) + 1]),
                        store>>
            ELSE BindParams(i + 1, k, n, func, name_map) \o <<store>>

Untag(code) == [j \in 1..Len(code) |-> [code[j] EXCEPT !.src = 0]]

\* C7: the code list a rewrite of a call with k >= 1 positional arguments
\* produces is the caller's list with the entries that load the callee and
\* the CALL_FUNCTION removed and nothing else, every argument load kept, and
\* the inlined block in place of the call; the block begins by binding
\* parameter i to the i-th argument for i < k and to its default for
\* k <= i < n.
C7_SpliceKeepsArgumentsAndBindsParameters ==
    (last.spliced # <<>> /\ last.numargs >= 1) =>
        LET b == last.before
            sp == last.spliced
            blk == Block(sp, Len(inlinings) + (IF last.path = "done" THEN 0 ELSE 1))
            n == func_code[last.func].co_argcount
            bind == BindParams(0, last.numargs, n, last.func, issued[Len(issued)])
        IN /\ \E lo \in 1..Len(b), len \in 1..Len(b), hi \in 1..Len(b) :
                 /\ lo + len <= hi
                 /\ b[hi] = OpI("CALL_FUNCTION", last.numargs)
                 /\ LoadsFunc(b, lo, len, last.func)
                 /\ sp = SubSeq(b, 1, lo - 1) \o SubSeq(b, lo + len, hi - 1)
                           \o blk \o SubSeq(b, hi + 1, Len(b))
           /\ Len(blk) >= Len(bind)
           /\ Untag(SubSeq(blk, 1, Len(bind))) = bind

\* C8: in code installed by a rewrite no inlined instruction is a
\* RETURN_VALUE; the inlined block ends with its only end label and every
\* return of the callee has become a jump to it; and a frame that leaves an
\* inlined block is at the instruction right after the block with the stack
\* it had before the arguments were loaded plus one item.
C8_InlinedBodyFallsThroughToCaller ==
    /\ \A f \in FuncNames : \A j \in 1..Len(func_code[f].co_code) :
          func_code[f].co_code[j].src # 0 => func_code[f].co_code[j].op # "RETURN_VALUE"
    /\ (last.path = "done" /\ last.numargs >= 1) =>
          LET sp == last.spliced
              at == BlockAt(sp, Len(inlinings))
              end == CHOOSE j \in at : \A i \in at : i <= j
              ends == {j \in at : sp[j].op = "Label" /\ sp[j].arg.t = "label"
                                   /\ sp[j].arg.s = "e"}
              jumps == {j \in at : sp[j].op = "JUMP_ABSOLUTE" /\ sp[j].arg.s = "e"}
          IN /\ at # {}
             /\ \A i \in at, j \in at : \A m \in i..j : m \in at
             /\ ends = {end}
             /\ \A j \in jumps : sp[j].arg = sp[end].arg
             /\ Cardinality(jumps) = Count(func_code[last.func].co_code, "RETURN_VALUE")
             /\ Count(Block(sp, Len(inlinings)), "RETURN_VALUE") = 0
    /\ \A d \in 1..Len(frames) :
          LET f == frames[d]
              k == inlinings[f.inl].numargs
              base == Len(f.mark) - k
          IN (f.inl # 0 /\ f.i <= Len(f.f_code.co_code) /\ CurIns(f).src # f.inl) =>
                /\ f.i > 1
                /\ f.f_code.co_code[f.i - 1].src = f.inl
                /\ base >= 0
                /\ Len(f.stack) = base + 1
                /\ SubSeq(f.stack, 1, base) = SubSeq(f.mark, 1, base)

\* aggregate has just left the inlined calculate: the iterator and total
\* are on the stack below the value.
C8_Witness ==
    /\ scn.caller = "inline_aggregate"
    /\ frames # <<>>
    /\ Top(frames).func = "inline_aggregate"
    /\ Top(frames).inl # 0
    /\ CurIns(Top(frames)).src = 0
    /\ Len(Top(frames).stack) = 3
    /\ Top(frames).stack[3] = PyInt(3)

\* The names of the fast locals an instruction sequence refers to, in order.
FastSeq(co_code) ==
    LET IsFast(e) == e.op \in FastOps
        fast == SelectSeq(co_code, IsFast)
    IN [j \in 1..Len(fast) |-> fast[j].arg.s]

IssuedNames == {<<m, v>> : m \in 1..Len(issued), v \in Names}

C10_DeferredSiteIsNotBlocked ==
    ~(last.path = "memo" /\ last.deferred /\ last.current)

====
